---- MODULE Spec2Model ----
(***************************************************************************)
(* The sheet-metal development drawing generator of src/cad.py as a state  *)
(* machine.  The script is one straight-line build: it registers layers,   *)
(* derives the corner key points, emits the outline, the left and right    *)
(* holes, the dashed bending line, the station ticks and the notes into    *)
(* the modelspace, and saves the document.                                 *)
(*                                                                         *)
(* Numbers.  The parameters of the script are integer-valued floats; the   *)
(* model draws them from the integers and carries every derived value as   *)
(* an exact rational [n, d] in lowest terms with d > 0.  Binary rounding   *)
(* of the float operations is not modelled.                                *)
(***************************************************************************)
EXTENDS Integers, Sequences, FiniteSets, TLC

VARIABLES
    pc,                     \* position of the script / of the called function
    right_edge_profile,     \* sequence of <<y_from_top, x_from_left>>
    stations,               \* sequence of distances from the top edge
    overall_len, left_x, hole_offset_from_left, hole_offset_from_right,
    bending_line_y,
    layers,                 \* doc.layers (names -> colour)
    doc,                    \* msp: the entities in emission order
    left_top, left_bot, top_left_in, top_right, bot_left_out, bot_right_pt,
    right_pts,
    k,                      \* position of a `for y in stations` loop
    p1, p2, i, on,          \* dashed_line: arguments and locals
    y_query, result,        \* right_x_at: argument and return value
    saved, error

vars == <<pc, right_edge_profile, stations, overall_len, left_x,
          hole_offset_from_left, hole_offset_from_right, bending_line_y,
          layers, doc, left_top, left_bot, top_left_in, top_right,
          bot_left_out, bot_right_pt, right_pts, k, p1, p2, i, on,
          y_query, result, saved, error>>

-----------------------------------------------------------------------------
(* Exact rational arithmetic                                               *)

Abs(a) == IF a < 0 THEN -a ELSE a

RECURSIVE GCD(_, _)
GCD(a, b) == IF b = 0 THEN a ELSE GCD(b, a % b)

Rat(n, d) ==
    LET g == GCD(Abs(n), Abs(d))
        s == IF d < 0 THEN -1 ELSE 1
    IN  [n |-> (s * n) \div g, d |-> (s * d) \div g]

Q(a) == [n |-> a, d |-> 1]

RAdd(a, b) == Rat(a.n * b.d + b.n * a.d, a.d * b.d)
RSub(a, b) == Rat(a.n * b.d - b.n * a.d, a.d * b.d)
RMul(a, b) == Rat(a.n * b.n, a.d * b.d)
RDiv(a, b) == Rat(a.n * b.d, a.d * b.n)
RLe(a, b)  == a.n * b.d <= b.n * a.d

-----------------------------------------------------------------------------
(* Parameters of the script that the model keeps at their source values    *)

top_left_flange  == 35
top_right_flange == 16
bot_left_return  == 83
hole_dia         == 14
txt_h            == 10
segs             == 80
top_y            == 0

-----------------------------------------------------------------------------
(* Geometry helpers                                                        *)

Vec2(x, y) == [x |-> x, y |-> y]

\* ezdxf Vec2.lerp: self + (other - self) * factor
Lerp(a, b, t) ==
    Vec2(RAdd(a.x, RMul(RSub(b.x, a.x), t)), RAdd(a.y, RMul(RSub(b.y, a.y), t)))

NoPoint == Vec2(Q(0), Q(0))

Entity(kind, layer, pts, r, text, height, at) ==
    [kind |-> kind, layer |-> layer, pts |-> pts, r |-> r, text |-> text,
     height |-> height, at |-> at]

Line(a, b, layer, at)   == Entity("LINE", layer, <<a, b>>, Q(0), "", Q(0), at)

\* add_circle: r = d / 2.0
add_circle(center, d, layer, at) ==
    Entity("CIRCLE", layer, <<center>>, RDiv(Q(d), Q(2)), "", Q(0), at)

add_text(text, insert, layer, height, at) ==
    Entity("TEXT", layer, <<insert>>, Q(0), text, Q(height), at)

spline_from_points(pts, layer, at) ==
    Entity("SPLINE", layer, pts, Q(0), "", Q(0), at)

-----------------------------------------------------------------------------
(* right_x_at                                                              *)

\* sorted(..., key=lambda t: t[0]): stable, ascending in the first component
RECURSIVE InsertByY(_, _)
InsertByY(s, e) ==
    IF s = <<>> THEN <<e>>
    ELSE IF s[Len(s)][1] <= e[1] THEN Append(s, e)
    ELSE Append(InsertByY(SubSeq(s, 1, Len(s) - 1), e), s[Len(s)])

\* variant: the defensive sort is missing
Unsorted(s) == s

RECURSIVE SortedByY(_)
SortedByY(s) ==
    IF s = <<>> THEN <<>>
    ELSE InsertByY(SortedByY(SubSeq(s, 1, Len(s) - 1)), s[Len(s)])

Ok(v)     == [err |-> "", val |-> v]
Raise(e)  == [err |-> e, val |-> Q(0)]

\* variant: the span is walked from its far end (t = (y1 - y)/(y1 - y0))
SpanValueInvT(a, b, yq) ==
    LET t == IF b[1] # a[1] THEN RDiv(Q(b[1] - yq), Q(b[1] - a[1])) ELSE Q(0)
    IN  RAdd(Q(a[2]), RMul(t, Q(b[2] - a[2])))

\* variant: the interpolation is anchored at x1 instead of x0
SpanValueFromB(a, b, yq) ==
    LET t == IF b[1] # a[1] THEN RDiv(Q(yq - a[1]), Q(b[1] - a[1])) ELSE Q(0)
    IN  RAdd(Q(b[2]), RMul(t, Q(b[2] - a[2])))

\* the body of one span of the `for ... in zip(rp, rp[1:])` loop
SpanValue(a, b, yq) ==
    LET t == IF b[1] # a[1] THEN RDiv(Q(yq - a[1]), Q(b[1] - a[1])) ELSE Q(0)
    IN  RAdd(Q(a[2]), RMul(t, Q(b[2] - a[2])))

SpanHit(a, b, yq) == a[1] <= yq /\ yq <= b[1]

RECURSIVE FindSpan(_, _, _)
FindSpan(rp, j, yq) ==
    IF j >= Len(rp) THEN Q(rp[Len(rp)][2])
    ELSE IF SpanHit(rp[j], rp[j + 1], yq) THEN SpanValue(rp[j], rp[j + 1], yq)
    ELSE FindSpan(rp, j + 1, yq)

ClampLow(rp, yq)  == yq <= rp[1][1]
ClampHigh(rp, yq) == yq >= rp[Len(rp)][1]

right_x_at(yq) ==
    LET rp == SortedByY(right_edge_profile)
    IN  IF rp = <<>> THEN Raise("IndexError")
        ELSE IF ClampLow(rp, yq) THEN Ok(Q(rp[1][2]))
        ELSE IF ClampHigh(rp, yq) THEN Ok(Q(rp[Len(rp)][2]))
        ELSE Ok(FindSpan(rp, 1, yq))

-----------------------------------------------------------------------------
(* Bounds and input sets                                                   *)

MaxProfileLen == 2      \* longest drawn profile of the build
MaxStations   == 2      \* longest drawn station list of the build
MaxInterpLen  == 3      \* longest drawn profile of the right_x_at harness

RECURSIVE SeqsUpTo(_, _)
SeqsUpTo(S, n) ==
    IF n = 0 THEN {<<>>}
    ELSE LET shorter == SeqsUpTo(S, n - 1)
         IN  shorter \cup {Append(s, e) : s \in {t \in shorter : Len(t) = n - 1}, e \in S}

\* the PARAMETERS section as shipped
SourceProfile ==
    <<  <<0, top_left_flange + 350>>, <<235, 360>>, <<435, 368>>, <<635, 372>>,
        <<835, 374>>, <<1035, 372>>, <<1235, 368>>, <<1435, 360>>, <<1635, 345>> >>
SourceStations == <<55, 285, 515, 835, 1155, 1385, 1615>>
SourceScalars ==
    [overall_len |-> 1670, left_x |-> 0, hole_offset_from_left |-> 20,
     hole_offset_from_right |-> 20, bending_line_y |-> 1385]

\* the end-to-end scenario of the specification
ExampleProfile  == << <<0, 350>>, <<1000, 400>> >>
ExampleStations == <<500>>
ExampleScalars ==
    [overall_len |-> 1000, left_x |-> 0, hole_offset_from_left |-> 20,
     hole_offset_from_right |-> 20, bending_line_y |-> 500]

\* an edited parameter block: shifted datum, wide left offset
EditedScalars ==
    [overall_len |-> 1670, left_x |-> 5, hole_offset_from_left |-> 400,
     hole_offset_from_right |-> 30, bending_line_y |-> 835]

ProfilePoints == { <<0, 385>>, <<835, 374>>, <<1635, 345>> }
StationValues == { 55, 2000 }

BuildProfiles == SeqsUpTo(ProfilePoints, MaxProfileLen) \cup {SourceProfile, ExampleProfile}
BuildStations == SeqsUpTo(StationValues, MaxStations) \cup {SourceStations, ExampleStations}
BuildScalars  == {SourceScalars, ExampleScalars, EditedScalars}

InterpPoints   == {0, 4, 10} \X {3, 8}
InterpProfiles == SeqsUpTo(InterpPoints, MaxInterpLen) \cup {ExampleProfile}
InterpQueries  == {-1, 0, 1, 3, 4, 7, 10, 11, 500}

DashCoords == {-3, 0, 4}
DashPoints == {Vec2(Q(x), Q(y)) : x \in DashCoords, y \in DashCoords}
               \cup {Vec2(Q(800), Q(0))}

-----------------------------------------------------------------------------
(* The build                                                               *)

\* ezdxf.new(setup=True): the document before the script touches it
NewLayers == {"0", "Defpoints"}

Fresh ==
    /\ layers = NewLayers
    /\ doc = <<>>
    /\ left_top = NoPoint /\ left_bot = NoPoint /\ top_left_in = NoPoint
    /\ top_right = NoPoint /\ bot_left_out = NoPoint /\ bot_right_pt = NoPoint
    /\ right_pts = <<>>
    /\ k = 1
    /\ p1 = NoPoint /\ p2 = NoPoint /\ i = 0 /\ on = TRUE
    /\ y_query = 0 /\ result = Ok(Q(0))
    /\ saved = FALSE /\ error = ""

SetScalars(sc) ==
    /\ overall_len = sc.overall_len
    /\ left_x = sc.left_x
    /\ hole_offset_from_left = sc.hole_offset_from_left
    /\ hole_offset_from_right = sc.hole_offset_from_right
    /\ bending_line_y = sc.bending_line_y

Init ==
    /\ pc = "layers"
    /\ right_edge_profile \in BuildProfiles
    /\ stations \in BuildStations
    /\ \E sc \in BuildScalars : SetScalars(sc)
    /\ Fresh

params == <<right_edge_profile, stations, overall_len, left_x,
            hole_offset_from_left, hole_offset_from_right, bending_line_y>>
keypoints == <<left_top, left_bot, top_left_in, top_right, bot_left_out,
               bot_right_pt>>
dashvars == <<p1, p2, i, on>>
callvars == <<y_query, result>>

\* lines 93-98: register the five layers unless present
Layers ==
    /\ pc = "layers"
    /\ layers' = layers \cup {"OUTLINE", "HOLES_L", "HOLES_R", "CENTER", "NOTES"}
    /\ pc' = "keypoints"
    /\ UNCHANGED <<params, doc, keypoints, right_pts, k, dashvars, callvars, saved, error>>

\* variant: the tie-in of lines 112-113 is missing
TopRightProvisional ==
    Vec2(Q(left_x + top_left_flange + 300 + top_right_flange), Q(top_y))

\* line 110, then lines 112-113
TopRight ==
    LET provisional == Vec2(Q(left_x + top_left_flange + 300 + top_right_flange), Q(top_y))
    IN  IF right_edge_profile # <<>>
        THEN Vec2(Q(right_edge_profile[1][2]), Q(right_edge_profile[1][1]))
        ELSE provisional

\* lines 101-117; right_edge_profile[-1] raises IndexError on an empty list
KeyPoints ==
    /\ pc = "keypoints"
    /\ left_top' = Vec2(Q(left_x), Q(top_y))
    /\ left_bot' = Vec2(Q(left_x), Q(overall_len))
    /\ top_left_in' = Vec2(Q(left_x + top_left_flange), Q(top_y))
    /\ top_right' = TopRight
    /\ bot_left_out' = Vec2(Q(bot_left_return), Q(overall_len))
    /\ IF right_edge_profile = <<>>
       THEN /\ pc' = "failed"
            /\ error' = "IndexError"
            /\ bot_right_pt' = bot_right_pt
       ELSE /\ pc' = "left_edge"
            /\ error' = error
            /\ bot_right_pt' =
                 LET last == right_edge_profile[Len(right_edge_profile)]
                 IN  Vec2(Q(last[2]), Q(last[1]))
    /\ UNCHANGED <<params, layers, doc, right_pts, k, dashvars, callvars, saved>>

\* line 120
LeftEdge ==
    /\ pc = "left_edge"
    /\ doc' = Append(doc, Line(left_top, left_bot, "OUTLINE", 120))
    /\ pc' = "top_edge"
    /\ UNCHANGED <<params, layers, keypoints, right_pts, k, dashvars, callvars, saved, error>>

\* lines 123-124
TopEdge ==
    /\ pc = "top_edge"
    /\ doc' = doc \o << Line(left_top, top_left_in, "OUTLINE", 123),
                        Line(top_left_in, top_right, "OUTLINE", 124) >>
    /\ pc' = "right_edge"
    /\ UNCHANGED <<params, layers, keypoints, right_pts, k, dashvars, callvars, saved, error>>

\* line 127: [Vec2(x, y) for (y, x) in right_edge_profile]
RightPts ==
    [j \in 1..Len(right_edge_profile) |->
        Vec2(Q(right_edge_profile[j][2]), Q(right_edge_profile[j][1]))]

\* lines 127-128
RightEdge ==
    /\ pc = "right_edge"
    /\ right_pts' = RightPts
    /\ doc' = Append(doc, spline_from_points(RightPts, "OUTLINE", 128))
    /\ pc' = "bottom_edge"
    /\ UNCHANGED <<params, layers, keypoints, k, dashvars, callvars, saved, error>>

\* lines 131-132
BottomEdge ==
    /\ pc = "bottom_edge"
    /\ doc' = doc \o << Line(bot_right_pt, bot_left_out, "OUTLINE", 131),
                        Line(bot_left_out, left_bot, "OUTLINE", 132) >>
    /\ pc' = "holes_l"
    /\ k' = 1
    /\ UNCHANGED <<params, layers, keypoints, right_pts, dashvars, callvars, saved, error>>

\* variant: the left offset is applied outwards
LeftHoleOutwards(y) ==
    add_circle(Vec2(Q(left_x - hole_offset_from_left), Q(y)), hole_dia, "HOLES_L", 139)

\* lines 137-139: one left hole
LeftHoleEntity(y) ==
    add_circle(Vec2(Q(left_x + hole_offset_from_left), Q(y)), hole_dia, "HOLES_L", 139)

\* variant: a station value already seen gets no second hole
LeftHoleDedup ==
    /\ pc = "holes_l"
    /\ k <= Len(stations)
    /\ doc' = IF \E m \in 1..(k - 1) : stations[m] = stations[k]
              THEN doc
              ELSE Append(doc, LeftHoleEntity(stations[k]))
    /\ k' = k + 1
    /\ UNCHANGED <<pc, params, layers, keypoints, right_pts, dashvars, callvars, saved, error>>

\* lines 136-139: one iteration of the loop
LeftHole ==
    /\ pc = "holes_l"
    /\ k <= Len(stations)
    /\ doc' = Append(doc, LeftHoleEntity(stations[k]))
    /\ k' = k + 1
    /\ UNCHANGED <<pc, params, layers, keypoints, right_pts, dashvars, callvars, saved, error>>

LeftHolesEnd ==
    /\ pc = "holes_l"
    /\ k > Len(stations)
    /\ pc' = "holes_r"
    /\ k' = 1
    /\ UNCHANGED <<params, layers, doc, keypoints, right_pts, dashvars, callvars, saved, error>>

\* variant: the right offset is added instead of subtracted
RightHoleOutwards(edge_x, y) ==
    add_circle(Vec2(RAdd(edge_x, Q(hole_offset_from_right)), Q(y)), hole_dia, "HOLES_R", 161)

\* lines 158-161: one right hole, edge_x being right_x_at(y)
RightHoleEntity(edge_x, y) ==
    add_circle(Vec2(RSub(edge_x, Q(hole_offset_from_right)), Q(y)), hole_dia, "HOLES_R", 161)

\* lines 157-161: one iteration of the loop
RightHole ==
    /\ pc = "holes_r"
    /\ k <= Len(stations)
    /\ y_query' = stations[k]
    /\ result' = right_x_at(stations[k])
    /\ doc' = Append(doc, RightHoleEntity(right_x_at(stations[k]).val, stations[k]))
    /\ k' = k + 1
    /\ UNCHANGED <<pc, params, layers, keypoints, right_pts, dashvars, saved, error>>

RightHolesEnd ==
    /\ pc = "holes_r"
    /\ k > Len(stations)
    /\ pc' = "bend"
    /\ k' = 1
    /\ UNCHANGED <<params, layers, doc, keypoints, right_pts, dashvars, callvars, saved, error>>

\* line 164: the call of dashed_line, and lines 77-78
BendingLine ==
    /\ pc = "bend"
    /\ p1' = Vec2(Q(left_x), Q(bending_line_y))
    /\ p2' = Vec2(right_pts[Len(right_pts)].x, Q(bending_line_y))
    /\ i' = 0
    /\ on' = TRUE
    /\ pc' = "dashed_line"
    /\ UNCHANGED <<params, layers, doc, keypoints, right_pts, k, callvars, saved, error>>

\* lines 80-85: the segment of interval j
DashSegment(j) ==
    LET t0 == RDiv(Q(j), Q(segs))
        t1 == RDiv(Q(j + 1), Q(segs))
    IN  Line(Lerp(p1, p2, t0), Lerp(p1, p2, t1), "CENTER", 164)

\* variant: the state is toggled only after an emission
ToggleOnEmit(b) == IF b THEN FALSE ELSE b

\* line 86
Toggle(b) == ~b

\* lines 79-86: one iteration of dashed_line's loop
DashStep ==
    /\ pc = "dashed_line"
    /\ i < segs
    /\ doc' = IF on THEN Append(doc, DashSegment(i)) ELSE doc
    /\ on' = Toggle(on)
    /\ i' = i + 1
    /\ UNCHANGED <<pc, params, layers, keypoints, right_pts, k, p1, p2, callvars, saved, error>>

\* dashed_line returns; line 165
BendLabel ==
    /\ pc = "dashed_line"
    /\ i = segs
    /\ doc' = Append(doc, add_text("Bending line",
                  Vec2(Q(left_x + 10), Q(bending_line_y + 12)), "NOTES", txt_h, 165))
    /\ pc' = "ticks"
    /\ k' = 1
    /\ UNCHANGED <<params, layers, keypoints, right_pts, dashvars, callvars, saved, error>>

\* lines 169-171: one iteration of the loop
Tick ==
    /\ pc = "ticks"
    /\ k <= Len(stations)
    /\ LET y == stations[k]
       IN  doc' = doc \o
             << Line(Vec2(Q(left_x - 8), Q(y)), Vec2(Q(left_x), Q(y)), "CENTER", 170),
                add_text(ToString(y), Vec2(Q(left_x - 40), Q(y - 3)), "NOTES", 8, 171) >>
    /\ k' = k + 1
    /\ UNCHANGED <<pc, params, layers, keypoints, right_pts, dashvars, callvars, saved, error>>

TicksEnd ==
    /\ pc = "ticks"
    /\ k > Len(stations)
    /\ pc' = "notes"
    /\ UNCHANGED <<params, layers, doc, keypoints, right_pts, k, dashvars, callvars, saved, error>>

\* lines 173-174
Notes ==
    /\ pc = "notes"
    /\ doc' = doc \o
         << add_text("Units: mm", Vec2(Q(10), Q(overall_len + 40)), "NOTES", 8, 173),
            add_text("Development View", Vec2(Q(10), Q(overall_len + 20)), "NOTES", 10, 174) >>
    /\ pc' = "save"
    /\ UNCHANGED <<params, layers, keypoints, right_pts, k, dashvars, callvars, saved, error>>

\* variant: the file is written before the global notes
SaveBeforeNotes ==
    /\ pc \in {"notes", "save"}
    /\ saved' = TRUE
    /\ pc' = "done"
    /\ UNCHANGED <<params, layers, doc, keypoints, right_pts, k, dashvars, callvars, error>>

\* lines 177-178: the file is written
Save ==
    /\ pc = "save"
    /\ saved' = TRUE
    /\ pc' = "done"
    /\ UNCHANGED <<params, layers, doc, keypoints, right_pts, k, dashvars, callvars, error>>

\* line 178: the path is not writable and saveas raises
SaveFails ==
    /\ pc = "save"
    /\ error' = "OSError"
    /\ pc' = "failed"
    /\ UNCHANGED <<params, layers, doc, keypoints, right_pts, k, dashvars, callvars, saved>>

Next ==
    \/ Layers \/ KeyPoints \/ LeftEdge \/ TopEdge \/ RightEdge \/ BottomEdge
    \/ LeftHole \/ LeftHolesEnd \/ RightHole \/ RightHolesEnd
    \/ BendingLine \/ DashStep \/ BendLabel
    \/ Tick \/ TicksEnd \/ Notes \/ Save \/ SaveFails

Spec == Init /\ [][Next]_vars

-----------------------------------------------------------------------------
(* right_x_at on its own: any profile, any query                           *)

InitInterp ==
    /\ pc = "call"
    /\ right_edge_profile \in InterpProfiles
    /\ y_query \in InterpQueries
    /\ stations = <<>>
    /\ SetScalars(SourceScalars)
    /\ layers = NewLayers
    /\ doc = <<>>
    /\ left_top = NoPoint /\ left_bot = NoPoint /\ top_left_in = NoPoint
    /\ top_right = NoPoint /\ bot_left_out = NoPoint /\ bot_right_pt = NoPoint
    /\ right_pts = <<>>
    /\ k = 1
    /\ p1 = NoPoint /\ p2 = NoPoint /\ i = 0 /\ on = TRUE
    /\ result = Ok(Q(0))
    /\ saved = FALSE /\ error = ""

\* lines 143-155: one call
Call ==
    /\ pc = "call"
    /\ result' = right_x_at(y_query)
    /\ pc' = "returned"
    /\ UNCHANGED <<params, layers, doc, keypoints, right_pts, k, dashvars, y_query, saved, error>>

NextInterp == Call

SpecInterp == InitInterp /\ [][NextInterp]_vars

-----------------------------------------------------------------------------
(* dashed_line on its own: any two end points                              *)

InitDash ==
    /\ pc = "dashed_line"
    /\ p1 \in DashPoints
    /\ p2 \in DashPoints
    /\ i = 0
    /\ on = TRUE
    /\ right_edge_profile = <<>>
    /\ stations = <<>>
    /\ SetScalars(SourceScalars)
    /\ layers = NewLayers \cup {"OUTLINE", "HOLES_L", "HOLES_R", "CENTER", "NOTES"}
    /\ doc = <<>>
    /\ left_top = NoPoint /\ left_bot = NoPoint /\ top_left_in = NoPoint
    /\ top_right = NoPoint /\ bot_left_out = NoPoint /\ bot_right_pt = NoPoint
    /\ right_pts = <<>>
    /\ k = 1
    /\ y_query = 0 /\ result = Ok(Q(0))
    /\ saved = FALSE /\ error = ""

NextDash == DashStep

SpecDash == InitDash /\ [][NextDash]_vars

-----------------------------------------------------------------------------
(* Properties of right_x_at (checked under SpecInterp)                     *)

ProfileIdx == 1..Len(right_edge_profile)
Py(j) == right_edge_profile[j][1]
Px(j) == right_edge_profile[j][2]

DistinctYs == \A a, b \in ProfileIdx : a # b => Py(a) # Py(b)
MinY == CHOOSE y \in {Py(j) : j \in ProfileIdx} : \A j \in ProfileIdx : y <= Py(j)
MaxY == CHOOSE y \in {Py(j) : j \in ProfileIdx} : \A j \in ProfileIdx : y >= Py(j)

\* the first and the last point of the profile sorted by y, equal keys keeping
\* their list order
FirstSortedIdx == CHOOSE j \in ProfileIdx :
    Py(j) = MinY /\ \A m \in ProfileIdx : Py(m) = MinY => j <= m
LastSortedIdx == CHOOSE j \in ProfileIdx :
    Py(j) = MaxY /\ \A m \in ProfileIdx : Py(m) = MaxY => j >= m

\* a and b are neighbours in the profile sorted by y (distinct ys)
Consecutive(a, b) ==
    /\ Py(a) < Py(b)
    /\ ~ \E c \in ProfileIdx : Py(a) < Py(c) /\ Py(c) < Py(b)

\* x0 + (y - y0)/(y1 - y0) * (x1 - x0) as one fraction
Interpolated(a, b, y) ==
    Rat(Px(a) * (Py(b) - Py(a)) + (y - Py(a)) * (Px(b) - Px(a)), Py(b) - Py(a))

\* C1: for a profile of at least 2 points with distinct y values and a query
\* strictly between the smallest and the largest profile y, right_x_at returns
\* x0 + (y - y0)/(y1 - y0) * (x1 - x0) for every pair of consecutive points of
\* the sorted profile that brackets the query; for the profile
\* [(0,350),(1000,400)] the value at 500 is 375.
C1_LinearInterpolation ==
    pc = "returned" =>
        /\ (Len(right_edge_profile) >= 2 /\ DistinctYs /\ MinY < y_query /\ y_query < MaxY)
              => \A a, b \in ProfileIdx :
                    (Consecutive(a, b) /\ Py(a) <= y_query /\ y_query <= Py(b))
                        => result = Ok(Interpolated(a, b, y_query))
        /\ (right_edge_profile = ExampleProfile /\ y_query = 500)
              => result = Ok(Q(375))

C1_Witness ==
    /\ pc = "returned"
    /\ Len(right_edge_profile) = 3 /\ DistinctYs
    /\ Py(1) > Py(2)
    /\ MinY < y_query /\ y_query < MaxY
    /\ \A j \in ProfileIdx : Py(j) # y_query
    /\ result.err = "" /\ result.val.d # 1

\* C2 as stated: for any non-empty profile, a query at or below the first y of
\* the sorted profile returns the first point's x, and a query at or above the
\* last y returns the last point's x.
C2_ClampBothEnds ==
    (pc = "returned" /\ right_edge_profile # <<>>) =>
        /\ y_query <= MinY => result = Ok(Q(Px(FirstSortedIdx)))
        /\ y_query >= MaxY => result = Ok(Q(Px(LastSortedIdx)))

\* C2 amended: for any non-empty profile, a query at or below the first y of the
\* sorted profile returns the first point's x; a query at or above the last y
\* and above the first y returns the last point's x (the low clamp is tested
\* first, so it wins when every profile point has the queried y).
C2_ClampLowFirst ==
    (pc = "returned" /\ right_edge_profile # <<>>) =>
        /\ y_query <= MinY => result = Ok(Q(Px(FirstSortedIdx)))
        /\ (y_query >= MaxY /\ y_query > MinY) => result = Ok(Q(Px(LastSortedIdx)))

C2_Witness ==
    /\ pc = "returned"
    /\ Len(right_edge_profile) = 3
    /\ Py(1) > Py(3)
    /\ y_query > MaxY
    /\ Px(LastSortedIdx) # Px(FirstSortedIdx)
    /\ result = Ok(Q(Px(LastSortedIdx)))

-----------------------------------------------------------------------------
(* Properties of the build (checked under Spec)                            *)

OnLayer(kind, layer) == SelectSeq(doc, LAMBDA e : e.kind = kind /\ e.layer = layer)
LeftHoles  == OnLayer("CIRCLE", "HOLES_L")
RightHoles == OnLayer("CIRCLE", "HOLES_R")

OutlineDone == pc \in {"holes_l", "holes_r", "bend", "dashed_line", "ticks",
                       "notes", "save", "done"} \/ error = "OSError"
HolesDone   == pc \in {"bend", "dashed_line", "ticks", "notes", "save", "done"}
                  \/ error = "OSError"

\* C4: for every station s the build emits one left hole at
\* (left_x + hole_offset_from_left, s) and one right hole at
\* (right_x_at(s) - hole_offset_from_right, s), each of radius hole_dia/2; for
\* overall_len=1000, profile [(0,350),(1000,400)], stations=[500] and offsets
\* 20 the holes are at (20,500) and (355,500).
C4_HolePlacement ==
    HolesDone =>
        /\ Len(LeftHoles) = Len(stations) /\ Len(RightHoles) = Len(stations)
        /\ \A j \in 1..Len(stations) :
              /\ LeftHoles[j].pts =
                    << Vec2(Q(left_x + hole_offset_from_left), Q(stations[j])) >>
              /\ RightHoles[j].pts =
                    << Vec2(RSub(right_x_at(stations[j]).val, Q(hole_offset_from_right)),
                            Q(stations[j])) >>
              /\ LeftHoles[j].pts[1].y = RightHoles[j].pts[1].y
              /\ LeftHoles[j].r = Rat(hole_dia, 2) /\ RightHoles[j].r = Rat(hole_dia, 2)
        /\ (right_edge_profile = ExampleProfile /\ stations = ExampleStations
                /\ SetScalars(ExampleScalars))
              => /\ LeftHoles[1].pts = << Vec2(Q(20), Q(500)) >>
                 /\ RightHoles[1].pts = << Vec2(Q(355), Q(500)) >>

C4_Witness ==
    /\ pc = "done"
    /\ right_edge_profile = ExampleProfile /\ stations = ExampleStations
    /\ SetScalars(ExampleScalars)
    /\ Len(RightHoles) = 1
    /\ RightHoles[1].pts[1].x = Q(355)

\* C5: after a complete build the circles on HOLES_L, the circles on HOLES_R
\* and the stations are equally many, for any station list, and the holes are
\* 2 * |stations| in all.
C5_HoleCount ==
    pc = "done" =>
        /\ Len(LeftHoles) = Len(stations)
        /\ Len(RightHoles) = Len(stations)
        /\ Len(SelectSeq(doc, LAMBDA e : e.kind = "CIRCLE")) = 2 * Len(stations)

C5_Witness ==
    /\ pc = "done"
    /\ Len(stations) = 2 /\ stations[1] = stations[2]
    /\ Len(LeftHoles) = 2 /\ Len(RightHoles) = 2

\* C7 as stated: with an empty right-edge profile the build fails with a
\* ConfigurationError, produces no geometry and saves no file.
C7_EmptyProfileConfigurationError ==
    (right_edge_profile = <<>> /\ pc \in {"failed", "done"}) =>
        (pc = "failed" /\ error = "ConfigurationError" /\ doc = <<>> /\ ~saved)

\* the phase of the pass an entity belongs to, by the statement that emitted it
Phase(e) ==
    CASE e.at \in {120, 123, 124, 128, 131, 132} -> 1
      [] e.at = 139 -> 2
      [] e.at = 161 -> 3
      [] e.at \in {164, 165} -> 4
      [] e.at \in {170, 171} -> 5
      [] e.at \in {173, 174} -> 6

\* the entities of a complete pass: 6 of the outline, 2 holes per station, the
\* drawn dashes and the label, a tick and a label per station, 2 notes
CompleteDoc ==
    /\ Len(doc) = 6 + 2 * Len(stations) + (segs \div 2) + 1 + 2 * Len(stations) + 2
    /\ doc[Len(doc) - 1].at = 173 /\ doc[Len(doc)].at = 174

\* C8: the document is written in one pass: outline, then left holes, then
\* right holes, then the bend line and its label, then the station ticks and
\* labels, then the two notes; the save happens only after all of them.
C8_SinglePassOrder ==
    /\ \A a \in 1..(Len(doc) - 1) : Phase(doc[a]) <= Phase(doc[a + 1])
    /\ \A a \in 1..Len(doc) :
          /\ Phase(doc[a]) = 1 <=> a <= 6
          /\ pc \in {"left_edge", "top_edge", "right_edge", "bottom_edge"}
                => Phase(doc[a]) = 1
          /\ pc = "holes_l" => Phase(doc[a]) <= 2
          /\ pc = "holes_r" => Phase(doc[a]) <= 3
          /\ pc \in {"bend", "dashed_line"} => Phase(doc[a]) <= 4
          /\ pc = "ticks" => Phase(doc[a]) <= 5
    /\ pc \in {"save", "done"} => CompleteDoc
    /\ saved => (pc = "done" /\ CompleteDoc)

C8_Witness ==
    /\ pc = "done" /\ saved
    /\ Len(stations) = 2
    /\ Phase(doc[6]) = 1 /\ Phase(doc[7]) = 2 /\ Phase(doc[9]) = 3
    /\ Phase(doc[11]) = 4 /\ Phase(doc[51]) = 4 /\ Phase(doc[52]) = 5
    /\ Phase(doc[Len(doc)]) = 6

InPanel(c, s) ==
    /\ RLe(Q(left_x), c.x) /\ RLe(c.x, right_x_at(s).val)
    /\ RLe(Q(0), c.y) /\ RLe(c.y, Q(overall_len))

\* C9 as stated: for every station both hole centres lie within the panel:
\* left_x <= x <= right_x_at(s) and 0 <= y <= overall_len.
C9_HolesInPanel ==
    (HolesDone /\ Len(LeftHoles) = Len(stations) /\ Len(RightHoles) = Len(stations)) =>
        \A j \in 1..Len(stations) :
            /\ InPanel(LeftHoles[j].pts[1], stations[j])
            /\ InPanel(RightHoles[j].pts[1], stations[j])

\* the caller's side of the bargain at station s
SaneAt(s) ==
    LET width == RSub(right_x_at(s).val, Q(left_x))
    IN  /\ 0 <= s /\ s <= overall_len
        /\ 0 <= hole_offset_from_left /\ RLe(Q(hole_offset_from_left), width)
        /\ 0 <= hole_offset_from_right /\ RLe(Q(hole_offset_from_right), width)

\* C9 amended: for every station s with 0 <= s <= overall_len at which both
\* offsets lie between 0 and the panel width right_x_at(s) - left_x, both hole
\* centres lie within the panel.
C9_SaneHolesInPanel ==
    (HolesDone /\ Len(LeftHoles) = Len(stations) /\ Len(RightHoles) = Len(stations)) =>
        \A j \in 1..Len(stations) :
            SaneAt(stations[j]) =>
                /\ InPanel(LeftHoles[j].pts[1], stations[j])
                /\ InPanel(RightHoles[j].pts[1], stations[j])

C9_Witness ==
    /\ pc = "done"
    /\ right_edge_profile = SourceProfile /\ stations = SourceStations
    /\ SetScalars(SourceScalars)
    /\ Len(LeftHoles) = 7 /\ Len(RightHoles) = 7
    /\ \A j \in 1..7 : SaneAt(stations[j]) /\ InPanel(RightHoles[j].pts[1], stations[j])

\* C10: for a profile of at least 2 points the outline is one closed chain: the
\* second top segment ends at the first profile element, where the curve
\* starts; the curve passes through all profile points in order; the first
\* bottom segment runs from the curve's last point to
\* (bot_left_return, overall_len); the second ends at the left edge's lower
\* end (left_x, overall_len).
C10_ClosedOutline ==
    (OutlineDone /\ Len(right_edge_profile) >= 2) =>
        LET n      == Len(right_edge_profile)
            first  == Vec2(Q(Px(1)), Q(Py(1)))
            last   == Vec2(Q(Px(n)), Q(Py(n)))
            lt     == Vec2(Q(left_x), Q(0))
            lb     == Vec2(Q(left_x), Q(overall_len))
            tli    == Vec2(Q(left_x + top_left_flange), Q(0))
            blo    == Vec2(Q(bot_left_return), Q(overall_len))
        IN  /\ Len(doc) >= 6
            /\ \A a \in 1..6 : doc[a].layer = "OUTLINE"
            /\ doc[1].kind = "LINE" /\ doc[1].pts = <<lt, lb>>
            /\ doc[2].kind = "LINE" /\ doc[2].pts = <<lt, tli>>
            /\ doc[3].kind = "LINE" /\ doc[3].pts = <<tli, first>>
            /\ doc[4].kind = "SPLINE" /\ Len(doc[4].pts) = n
            /\ \A j \in 1..n : doc[4].pts[j] = Vec2(Q(Px(j)), Q(Py(j)))
            /\ doc[3].pts[2] = doc[4].pts[1]
            /\ doc[5].kind = "LINE" /\ doc[5].pts = <<last, blo>>
            /\ doc[5].pts[1] = doc[4].pts[n]
            /\ doc[6].kind = "LINE" /\ doc[6].pts = <<blo, lb>>
            /\ doc[6].pts[2] = doc[1].pts[2]

C10_Witness ==
    /\ pc = "holes_l" /\ k = 1
    /\ right_edge_profile = SourceProfile
    /\ Len(doc) = 6
    /\ doc[3].pts[2] = Vec2(Q(385), Q(0))
    /\ doc[5].pts[1] = Vec2(Q(345), Q(1635))

-----------------------------------------------------------------------------
(* Properties of dashed_line (checked under SpecDash)                      *)

Dashes == SelectSeq(doc, LAMBDA e : e.at = 164)

\* P1 + (P2 - P1) * j / N
PointAt(j) ==
    Vec2(RAdd(p1.x, RDiv(RMul(Q(j), RSub(p2.x, p1.x)), Q(segs))),
         RAdd(p1.y, RDiv(RMul(Q(j), RSub(p2.y, p1.y)), Q(segs))))

\* the segment a-b is the N-th part of P1-P2, so its length is |P2-P1|/N
NthPart(a, b) ==
    /\ RMul(RSub(b.x, a.x), Q(segs)) = RSub(p2.x, p1.x)
    /\ RMul(RSub(b.y, a.y), Q(segs)) = RSub(p2.y, p1.y)

\* C6: dashed_line walks the 80 intervals in increasing order, starts drawing
\* and toggles after every interval, so it emits exactly the even-indexed
\* intervals, each from lerp(i/N) to lerp((i+1)/N) and of length |P2-P1|/N, no
\* two of them adjacent, 40 in all; for (0,0)-(800,0) these are 40 segments of
\* length 10.
C6_DashedLine ==
    pc = "dashed_line" =>
        /\ segs = 80
        /\ on = (i % 2 = 0)
        /\ Len(Dashes) = (i + 1) \div 2
        /\ i = segs => Len(Dashes) = 40
        /\ \A m \in 1..Len(Dashes) :
              /\ Dashes[m].kind = "LINE"
              /\ Dashes[m].pts = << PointAt(2 * (m - 1)), PointAt(2 * (m - 1) + 1) >>
              /\ NthPart(Dashes[m].pts[1], Dashes[m].pts[2])
        /\ p1 # p2 =>
              \A m, n \in 1..Len(Dashes) : m # n => Dashes[m].pts[2] # Dashes[n].pts[1]
        /\ (p1 = Vec2(Q(0), Q(0)) /\ p2 = Vec2(Q(800), Q(0))) =>
              \A m \in 1..Len(Dashes) :
                  /\ Dashes[m].pts = << Vec2(Q(20 * (m - 1)), Q(0)),
                                        Vec2(Q(20 * (m - 1) + 10), Q(0)) >>
                  /\ RSub(Dashes[m].pts[2].x, Dashes[m].pts[1].x) = Q(10)

C6_Witness ==
    /\ pc = "dashed_line" /\ i = segs
    /\ p1 = Vec2(Q(0), Q(0)) /\ p2 = Vec2(Q(800), Q(0))
    /\ Len(Dashes) = 40
    /\ Dashes[40].pts = << Vec2(Q(780), Q(0)), Vec2(Q(790), Q(0)) >>

====
